---- MODULE Spec2Model ----
(***************************************************************************)
(* A model of the transmute_guard crate (src/src/lib.rs): the capability   *)
(* marker TransmuteGuard, the value / reference / slice transmutes and the *)
(* enum_alias! macro expansion.                                            *)
(*                                                                         *)
(* Values are modelled by their in-memory representation: a value is a     *)
(* type tag together with the byte that represents it, so that a transmute *)
(* (a re-tagging of the same byte) and a per-variant match (a comparison   *)
(* of discriminants) are different computations that may disagree.         *)
(***************************************************************************)
EXTENDS Integers, Sequences, FiniteSets, TLC

VARIABLES
    debug_assertions, \* cfg(debug_assertions): TRUE in verification builds
    parentDisc,       \* the parent enum: variant name -> declared discriminant
    aliasDeclared,    \* enum_alias! has been invoked
    aliasVariants,    \* the alias enum: its variant names, in macro order
    aliasDisc,        \* the alias enum: discriminant byte of the i-th variant
    edited,           \* the alias discriminants were edited after expansion
    mem,              \* byte-addressed memory, addresses 1..Len(mem)
    src,              \* the caller's borrow of Src memory: [ptr, len, ty]
    call,             \* the last operation called: [op, arg, dst, ret, pre]
    lastWrite         \* the last write through a mutable view

vars == <<debug_assertions, parentDisc, aliasDeclared, aliasVariants,
          aliasDisc, edited, mem, src, call, lastWrite>>

enumVars == <<debug_assertions, parentDisc, aliasDeclared, aliasVariants,
              aliasDisc, edited>>

-----------------------------------------------------------------------------
(* Bounds of the model *)

\* number of bytes of modelled memory
MemSize == 3

-----------------------------------------------------------------------------
(* Representation *)

\* `as u8` keeps the low 8 bits of the discriminant
U8Mod == 256

AsU8(n) == n % U8Mod

\* every type the model uses is one byte wide
SizeOf(ty) == IF ty \in {"bool", "u8", "Alias", "Parent"} THEN 1 ELSE 0

Value(ty, bits) == [tag |-> "Val", ty |-> ty, bits |-> bits]
Ok(v) == [tag |-> "Ok", ty |-> v.ty, bits |-> v.bits]
Err == [tag |-> "Err", ty |-> "()", bits |-> 0]
Panic == [tag |-> "Panic", ty |-> "!", bits |-> 0]
NonExhaustive == [tag |-> "NonExhaustive", ty |-> "!", bits |-> 0]
Nothing == [tag |-> "None", ty |-> "()", bits |-> 0]

ParentVariants == {"Red", "Green", "Blue"}

\* parent enumerations the alias is generated over: the contiguous one, a
\* sparse repr(u8) one and a repr(i8) one with a negative discriminant
ParentEnums ==
    { ("Red" :> 0 @@ "Green" :> 1 @@ "Blue" :> 2),
      ("Red" :> 1 @@ "Green" :> 4 @@ "Blue" :> 255),
      ("Red" :> (0 - 1) @@ "Green" :> 0 @@ "Blue" :> 1) }

\* the byte of parent variant p
ParentByte(p) == AsU8(parentDisc[p])

\* the value <$ty>::p
ParentValue(p) == Value("Parent", ParentByte(p))

ParentValues == { ParentValue(p) : p \in ParentVariants }

\* index of variant name v in the alias's variant list
AliasIndex(v) == CHOOSE i \in 1..Len(aliasVariants) : aliasVariants[i] = v

\* the value <$name>::v
AliasValue(v) == Value("Alias", aliasDisc[AliasIndex(v)])

AliasNames == { aliasVariants[i] : i \in 1..Len(aliasVariants) }

AliasValues == { AliasValue(v) : v \in AliasNames }

-----------------------------------------------------------------------------
(* enum_alias!: the generated enum and its inherent functions *)

\* the variant lists the macro is invoked with: `$variant0 $(| $variant)*`
\* or nothing; a repeated name is rejected by the compiler (E0428)
VariantLists ==
    { s \in UNION { [1..n -> ParentVariants] : n \in 0..Cardinality(ParentVariants) } :
          \A i, j \in 1..Len(s) : s[i] = s[j] => i = j }

\* mutant: the variants renumbered from 0 in list order
MutRenumbered(variants) == [i \in 1..Len(variants) |-> i - 1]

\* `$variant = <$ty>::$variant as u8`
AliasDiscriminants(variants) ==
    [i \in 1..Len(variants) |-> AsU8(parentDisc[variants[i]])]

\* a `match`: the body of the first arm whose pattern matches; a match with
\* no matching arm is not exhaustive and yields no value
Match(value, arms) ==
    LET hits == { i \in 1..Len(arms) : arms[i].wild \/ arms[i].pat = value }
    IN  IF hits = {} THEN NonExhaustive
        ELSE arms[CHOOSE i \in hits : \A j \in hits : i <= j].body

\* `self as u8`
as_u8(self) == self.bits

\* core::mem::transmute: the same bits under the destination type
transmute(value, Dst) == Value(Dst, value.bits)

\* mutant: a zeroed parent value instead of the reinterpreted one
MutZeroed(self) == Value("Parent", 0)

as_parent(self) == transmute(self, "Parent")

\* mutant: the wildcard arm emitted before the variant arms
MutWildcardFirst ==
    [i \in 1..(Len(aliasVariants) + 1) |->
        IF i = 1
        THEN [pat |-> Nothing, wild |-> TRUE, body |-> Err]
        ELSE [pat  |-> ParentValue(aliasVariants[i - 1]), wild |-> FALSE,
              body |-> Ok(AliasValue(aliasVariants[i - 1]))]]

\* the arms of try_from_parent; the wildcard arm is inside the optional
\* `$( ... )?` group, so it is emitted only with a non-empty variant list
TryFromParentArms ==
    IF Len(aliasVariants) > 0
    THEN [i \in 1..(Len(aliasVariants) + 1) |->
            IF i <= Len(aliasVariants)
            THEN [pat  |-> ParentValue(aliasVariants[i]), wild |-> FALSE,
                  body |-> Ok(AliasValue(aliasVariants[i]))]
            ELSE [pat |-> Nothing, wild |-> TRUE, body |-> Err]]
    ELSE <<>>

try_from_parent(value) == Match(value, TryFromParentArms)

\* TryFrom<$ty> for $name
try_from(value) == try_from_parent(value)

\* the arms of the debug-only match of From<$name> for $ty
FromArms ==
    [i \in 1..Len(aliasVariants) |->
        [pat  |-> AliasValue(aliasVariants[i]), wild |-> FALSE,
         body |-> ParentValue(aliasVariants[i])]]

self_dev(value) == Match(value, FromArms)

self_prod(value) == as_parent(value)

\* mutant: the cross-check left out of every build
MutFromUnchecked(value) == self_prod(value)

\* From<$name> for $ty: debug_assert_eq!(self_dev, self_prod) exists only
\* under cfg(debug_assertions)
From_from(value) ==
    IF debug_assertions /\ self_dev(value) # self_prod(value)
    THEN Panic
    ELSE self_prod(value)

-----------------------------------------------------------------------------
(* The capability marker and the value transmute *)

Types == {"bool", "u8", "Alias", "Parent"}

\* `Dst: TransmuteGuard<Src>`: reflexive, u8 from bool, $ty from $name
TransmuteGuard(Src, Dst) ==
    \/ Src = Dst
    \/ Src = "bool" /\ Dst = "u8"
    \/ Src = "Alias" /\ Dst = "Parent" /\ aliasDeclared

\* `Dst: SafeTransmuteFrom<Src>` has the same three implementations
SafeTransmuteFrom(Src, Dst) == TransmuteGuard(Src, Dst)

\* bool -> u8 by `value.into()`
bool_into_u8(value) == Value("u8", IF value.bits = 0 THEN 0 ELSE 1)

\* mutant: the implementation selected by the destination type alone
MutDispatchByDst(Src, Dst, value) ==
    CASE Dst = "Parent" /\ Src = "Alias" -> as_parent(value)
      [] Dst = "u8" -> bool_into_u8(value)
      [] OTHER -> value

\* mutant: the alias pair converted by the checked From conversion
MutTransmuteViaFrom(Src, Dst, value) ==
    CASE Src = "Alias" /\ Dst = "Parent" -> From_from(value)
      [] Src = "bool" /\ Dst = "u8" -> bool_into_u8(value)
      [] OTHER -> value

\* Dst::safe_transmute_from(value), by the implementation trait resolution
\* selects for the pair
safe_transmute_from(Src, Dst, value) ==
    CASE Src = "Alias" /\ Dst = "Parent" -> as_parent(value)
      [] Src = "bool" /\ Dst = "u8" -> bool_into_u8(value)
      [] OTHER -> value

safe_transmute(Src, Dst, value) == safe_transmute_from(Src, Dst, value)

U8Samples == {0, 1, 255}

\* the values of each type the operations are called with
ValuesOf(ty) ==
    CASE ty = "bool" -> { Value("bool", b) : b \in {0, 1} }
      [] ty = "u8" -> { Value("u8", b) : b \in U8Samples }
      [] ty = "Parent" -> ParentValues
      [] ty = "Alias" -> AliasValues

-----------------------------------------------------------------------------
(* Reference and slice transmutes *)

\* the bytes memory holds: valid both as bool and as u8
Bytes == {0, 1}

View(ptr, len, ty, mutable) ==
    [tag |-> "View", ptr |-> ptr, len |-> len, ty |-> ty, mutable |-> mutable]

\* mutant: the cast moves the pointer on by one element
MutPtrCastNext(ptr) == ptr + 1

\* `src_ptr.cast()`: the same address under another pointee type
ptr_cast(ptr) == ptr

\* mutant: the cast drops the last element
MutSliceCastShort(s) == [ptr |-> s.ptr, len |-> s.len - 1]

\* `u_ptr as *const [Dst]`: the same address and the same element count
slice_ptr_cast(s) == [ptr |-> s.ptr, len |-> s.len]

safe_transmute_ref_const(r, Dst) == View(ptr_cast(r.ptr), 1, Dst, FALSE)

safe_transmute_mut_const(r, Dst) == View(ptr_cast(r.ptr), 1, Dst, TRUE)

\* the blanket implementations for every T: TransmuteGuard<U>
safe_transmute_ref_from(r, Dst) == safe_transmute_ref_const(r, Dst)

safe_transmute_mut_from(r, Dst) == safe_transmute_mut_const(r, Dst)

safe_transmute_ref(r, Dst) == safe_transmute_ref_from(r, Dst)

safe_transmute_mut(r, Dst) == safe_transmute_mut_from(r, Dst)

safe_transmute_slice(s, Dst) ==
    View(slice_ptr_cast(s).ptr, slice_ptr_cast(s).len, Dst, FALSE)

safe_transmute_slice_mut(s, Dst) ==
    View(slice_ptr_cast(s).ptr, slice_ptr_cast(s).len, Dst, TRUE)

\* address of element i (from 0) of a slice or view
ElemAddr(s, i) == s.ptr + i * SizeOf(s.ty)

\* the borrow of element j of the caller's Src memory
ElemRef(j) == [ptr |-> ElemAddr(src, j), len |-> 1, ty |-> src.ty]

-----------------------------------------------------------------------------
(* State machine *)

NoCall == [op |-> "none", arg |-> Nothing, dst |-> "()", ret |-> Nothing, pre |-> mem]

NoWrite ==
    [valid |-> FALSE, via |-> "none", borrow |-> Nothing, idx |-> 0, addr |-> 0,
     val |-> 0, before |-> mem]

\* a failed debug_assert_eq! ends the program
Running == call.ret.tag # "Panic"

\* the call returns (or panics): its record replaces the previous one
Returned(op, arg, dst, ret) ==
    /\ call' = [op |-> op, arg |-> arg, dst |-> dst, ret |-> ret, pre |-> mem]
    /\ lastWrite' = NoWrite
    /\ UNCHANGED <<enumVars, mem, src>>

EnumInit ==
    /\ debug_assertions \in BOOLEAN
    /\ parentDisc \in ParentEnums
    /\ aliasDeclared = FALSE
    /\ aliasVariants = <<>>
    /\ aliasDisc = <<>>
    /\ edited = FALSE

Init ==
    /\ EnumInit
    /\ mem = [a \in 1..MemSize |-> 0]
    /\ src = [ptr |-> 1, len |-> MemSize, ty |-> "bool"]
    /\ call = NoCall
    /\ lastWrite = NoWrite

MemInit ==
    /\ debug_assertions = TRUE
    /\ parentDisc = ("Red" :> 0 @@ "Green" :> 1 @@ "Blue" :> 2)
    /\ aliasDeclared = FALSE
    /\ aliasVariants = <<>>
    /\ aliasDisc = <<>>
    /\ edited = FALSE
    /\ mem \in [1..MemSize -> Bytes]
    /\ src \in { [ptr |-> p, len |-> n, ty |-> t] :
                 p \in 1..MemSize, n \in 0..MemSize, t \in {"bool", "u8"} }
    /\ src.ptr + src.len * SizeOf(src.ty) <= MemSize + 1
    /\ call = NoCall
    /\ lastWrite = NoWrite

\* the macro invocation `enum_alias! { enum $name: $ty = { variants }; }`
EnumAlias(variants) ==
    /\ ~aliasDeclared
    /\ aliasDeclared' = TRUE
    /\ aliasVariants' = variants
    /\ aliasDisc' = AliasDiscriminants(variants)
    /\ UNCHANGED <<debug_assertions, parentDisc, edited, mem, src, call, lastWrite>>

\* a contract violation introduced by hand before the program is built: the
\* discriminant of the i-th alias variant is changed to that of another parent
\* variant (one no alias variant has: a repeated discriminant is rejected)
Miswire(i, p) ==
    /\ aliasDeclared /\ ~edited /\ call.op = "none"
    /\ i \in 1..Len(aliasVariants)
    /\ \A j \in 1..Len(aliasVariants) : aliasDisc[j] # ParentByte(p)
    /\ aliasDisc' = [aliasDisc EXCEPT ![i] = ParentByte(p)]
    /\ edited' = TRUE
    /\ UNCHANGED <<debug_assertions, parentDisc, aliasDeclared, aliasVariants,
                   mem, src, call, lastWrite>>

CallAsU8(v) ==
    /\ Running /\ v \in AliasValues
    /\ Returned("as_u8", v, "u8", Value("u8", as_u8(v)))

CallAsParent(v) ==
    /\ Running /\ v \in AliasValues
    /\ Returned("as_parent", v, "Parent", as_parent(v))

CallTryFromParent(p) ==
    /\ Running /\ aliasDeclared /\ p \in ParentValues
    /\ Returned("try_from_parent", p, "Alias", try_from_parent(p))

CallTryFrom(p) ==
    /\ Running /\ aliasDeclared /\ p \in ParentValues
    /\ Returned("try_from", p, "Alias", try_from(p))

CallFrom(v) ==
    /\ Running /\ v \in AliasValues
    /\ Returned("from", v, "Parent", From_from(v))

CallSafeTransmute(Src, Dst, v) ==
    /\ Running /\ SafeTransmuteFrom(Src, Dst) /\ v \in ValuesOf(Src)
    /\ Returned("safe_transmute", v, Dst, safe_transmute(Src, Dst, v))

CallSafeTransmuteRef(j, Dst) ==
    /\ Running /\ TransmuteGuard(src.ty, Dst) /\ j \in 0..(src.len - 1)
    /\ Returned("safe_transmute_ref", ElemRef(j), Dst, safe_transmute_ref(ElemRef(j), Dst))

CallSafeTransmuteMut(j, Dst) ==
    /\ Running /\ TransmuteGuard(src.ty, Dst) /\ j \in 0..(src.len - 1)
    /\ Returned("safe_transmute_mut", ElemRef(j), Dst, safe_transmute_mut(ElemRef(j), Dst))

CallSafeTransmuteRefConst(j, Dst) ==
    /\ Running /\ TransmuteGuard(src.ty, Dst) /\ j \in 0..(src.len - 1)
    /\ Returned("safe_transmute_ref_const", ElemRef(j), Dst,
                safe_transmute_ref_const(ElemRef(j), Dst))

CallSafeTransmuteMutConst(j, Dst) ==
    /\ Running /\ TransmuteGuard(src.ty, Dst) /\ j \in 0..(src.len - 1)
    /\ Returned("safe_transmute_mut_const", ElemRef(j), Dst,
                safe_transmute_mut_const(ElemRef(j), Dst))

CallSafeTransmuteSlice(Dst) ==
    /\ Running /\ TransmuteGuard(src.ty, Dst)
    /\ Returned("safe_transmute_slice", src, Dst, safe_transmute_slice(src, Dst))

CallSafeTransmuteSliceMut(Dst) ==
    /\ Running /\ TransmuteGuard(src.ty, Dst)
    /\ Returned("safe_transmute_slice_mut", src, Dst, safe_transmute_slice_mut(src, Dst))

\* the caller stores byte b into element i of the `&mut` view it was given
WriteView(i, b) ==
    /\ call.ret.tag = "View" /\ call.ret.mutable
    /\ i \in 0..(call.ret.len - 1)
    /\ mem' = [mem EXCEPT ![ElemAddr(call.ret, i)] = b]
    /\ lastWrite' = [valid |-> TRUE, via |-> call.op, borrow |-> call.arg,
                     idx |-> i, addr |-> ElemAddr(call.ret, i),
                     val |-> b, before |-> mem]
    /\ UNCHANGED <<enumVars, src, call>>

\* the returned borrow goes out of scope; Src is usable again
EndBorrow ==
    /\ call.ret.tag = "View"
    /\ call' = NoCall
    /\ UNCHANGED <<enumVars, mem, src, lastWrite>>

MemCalls ==
    \/ \E j \in 0..(MemSize - 1), Dst \in Types : CallSafeTransmuteRef(j, Dst)
    \/ \E j \in 0..(MemSize - 1), Dst \in Types : CallSafeTransmuteMut(j, Dst)
    \/ \E j \in 0..(MemSize - 1), Dst \in Types : CallSafeTransmuteRefConst(j, Dst)
    \/ \E j \in 0..(MemSize - 1), Dst \in Types : CallSafeTransmuteMutConst(j, Dst)
    \/ \E Dst \in Types : CallSafeTransmuteSlice(Dst)
    \/ \E Dst \in Types : CallSafeTransmuteSliceMut(Dst)

Next ==
    \/ \E variants \in VariantLists : EnumAlias(variants)
    \/ \E i \in 1..Cardinality(ParentVariants), p \in ParentVariants : Miswire(i, p)
    \/ \E v \in AliasValues : CallAsU8(v)
    \/ \E v \in AliasValues : CallAsParent(v)
    \/ \E p \in ParentValues : CallTryFromParent(p)
    \/ \E p \in ParentValues : CallTryFrom(p)
    \/ \E v \in AliasValues : CallFrom(v)
    \/ \E Src \in Types, Dst \in Types :
          \E v \in ValuesOf(Src) : CallSafeTransmute(Src, Dst, v)
    \/ MemCalls

Spec == Init /\ [][Next]_vars

MemNext ==
    \/ MemCalls
    \/ \E i \in 0..(MemSize - 1), b \in Bytes : WriteView(i, b)
    \/ EndBorrow

MemSpec == MemInit /\ [][MemNext]_vars

-----------------------------------------------------------------------------
(* Properties *)

RefOps == {"safe_transmute_ref", "safe_transmute_mut",
           "safe_transmute_ref_const", "safe_transmute_mut_const"}

SliceOps == {"safe_transmute_slice", "safe_transmute_slice_mut"}

\* the fast and the slow path of the widening disagree on alias value v
Mismatch(v) == self_dev(v) # self_prod(v)

\* C1: for an alias as enum_alias generates it, narrowing the widened value
\* of every alias variant gives back Ok of that alias value.
C1_RoundTrip ==
    ~edited =>
        \A v \in AliasValues : try_from_parent(as_parent(v)) = Ok(v)

C1_Witness ==
    /\ ~edited
    /\ call.op = "try_from_parent"
    /\ \E v \in AliasValues : call.arg = as_parent(v) /\ call.ret = Ok(v)

\* C2: try_from_parent and TryFrom::try_from return Err(()) for every parent
\* variant outside the alias's subset and Ok of the same-named alias variant
\* for every parent variant inside it.
C2_Narrowing ==
    aliasDeclared =>
        \A p \in ParentVariants :
            /\ p \notin AliasNames =>
                  /\ try_from_parent(ParentValue(p)) = Err
                  /\ try_from(ParentValue(p)) = Err
            /\ p \in AliasNames =>
                  /\ try_from_parent(ParentValue(p)) = Ok(AliasValue(p))
                  /\ try_from(ParentValue(p)) = Ok(AliasValue(p))

\* C3: every alias discriminant is the discriminant of the same-named parent
\* variant, and as_u8 of an alias value is the underlying number of its
\* widening.
C3_DiscriminantPreserved ==
    ~edited =>
        \A n \in AliasNames :
            /\ aliasDisc[AliasIndex(n)] = ParentByte(n)
            /\ as_u8(AliasValue(n)) = ParentValue(n).bits
            /\ as_u8(AliasValue(n)) = as_parent(AliasValue(n)).bits

C3_Witness ==
    /\ ~edited
    /\ call.op = "as_u8"
    /\ \E n \in AliasNames :
          /\ call.arg = AliasValue(n)
          /\ call.ret = Value("u8", ParentByte(n))
          /\ ParentByte(n) # AliasIndex(n) - 1

\* C4: for a correctly generated alias the raw reinterpretation and the
\* per-variant match give the same parent value for every alias value, so
\* From::from never fails its cross-check and returns the same-named parent
\* variant.
C4_FastSlowAgree ==
    ~edited =>
        /\ \A n \in AliasNames :
              /\ self_prod(AliasValue(n)) = self_dev(AliasValue(n))
              /\ From_from(AliasValue(n)) = ParentValue(n)
        /\ call.op = "from" => call.ret.tag = "Val"

C4_Witness ==
    /\ ~edited /\ debug_assertions
    /\ call.op = "from"
    /\ \E n \in AliasNames :
          call.arg = AliasValue(n) /\ call.ret = ParentValue(n)

C6_EmptyAliasAlwaysErr ==
    (aliasDeclared /\ aliasVariants = <<>>) =>
        \A p \in ParentValues : try_from_parent(p) = Err

\* C7: the slice transmutes return a view of the same element count at the
\* same address, element for element, and leave memory as it was; a write to
\* element i through the mutable view changes exactly element i of the
\* original slice.
C7_SliceFrame ==
    /\ call.op \in SliceOps =>
          /\ call.ret.len = call.arg.len
          /\ call.ret.ptr = call.arg.ptr
          /\ call.ret.ty = call.dst
          /\ \A i \in 0..(call.arg.len - 1) :
                ElemAddr(call.ret, i) = ElemAddr(call.arg, i)
          /\ ~lastWrite.valid => mem = call.pre
    /\ (lastWrite.valid /\ lastWrite.via = "safe_transmute_slice_mut") =>
          /\ lastWrite.idx \in 0..(lastWrite.borrow.len - 1)
          /\ mem[ElemAddr(lastWrite.borrow, lastWrite.idx)] = lastWrite.val
          /\ \A a \in 1..MemSize :
                a # ElemAddr(lastWrite.borrow, lastWrite.idx)
                    => mem[a] = lastWrite.before[a]

C7_Witness ==
    /\ call.op = "none"
    /\ lastWrite.valid /\ lastWrite.via = "safe_transmute_slice_mut"
    /\ lastWrite.borrow.len >= 2 /\ lastWrite.idx >= 1
    /\ lastWrite.borrow.ty = "bool"
    /\ lastWrite.val # lastWrite.before[lastWrite.addr]
    /\ mem[ElemAddr(src, lastWrite.idx)] = lastWrite.val

\* C8: safe_transmute from a type to itself returns its argument unchanged
\* and touches nothing else.
C8_Reflexive ==
    /\ \A T \in Types : \A x \in ValuesOf(T) : safe_transmute(T, T, x) = x
    /\ (call.op = "safe_transmute" /\ call.dst = call.arg.ty) =>
          /\ call.ret = call.arg
          /\ mem = call.pre

C8_Witness ==
    /\ call.op = "safe_transmute"
    /\ call.dst = "u8" /\ call.arg = Value("u8", 255)
    /\ call.ret = call.arg

\* C9: the reference transmutes, const or not, return a view at the address
\* of the borrow they were given and leave memory as it was; a write through
\* the mutable view is what the original location then holds.
C9_RefFrame ==
    /\ call.op \in RefOps =>
          /\ call.ret.ptr = call.arg.ptr
          /\ call.ret.ty = call.dst
          /\ call.ret.mutable =
                (call.op \in {"safe_transmute_mut", "safe_transmute_mut_const"})
          /\ ~lastWrite.valid => mem = call.pre
    /\ (lastWrite.valid /\ lastWrite.via \in RefOps) =>
          /\ mem[lastWrite.borrow.ptr] = lastWrite.val
          /\ \A a \in 1..MemSize :
                a # lastWrite.borrow.ptr => mem[a] = lastWrite.before[a]

C9_Witness ==
    /\ call.op = "none"
    /\ lastWrite.valid /\ lastWrite.via = "safe_transmute_mut"
    /\ lastWrite.borrow.ty = "bool"
    /\ lastWrite.val # lastWrite.before[lastWrite.addr]
    /\ mem[lastWrite.borrow.ptr] = lastWrite.val

\* C10: as_parent, safe_transmute and From::from give the same parent value,
\* the raw reinterpretation, whenever they return; as_parent and
\* safe_transmute return it in both build modes, miswired or not.
C10_RoutesAgree ==
    /\ \A v \in AliasValues :
          /\ as_parent(v) = Value("Parent", v.bits)
          /\ safe_transmute("Alias", "Parent", v) = as_parent(v)
          /\ From_from(v) # Panic => From_from(v) = as_parent(v)
    /\ (call.op = "as_parent"
            \/ (call.op = "safe_transmute" /\ call.arg.ty = "Alias" /\ call.dst = "Parent"))
          => call.ret = Value("Parent", call.arg.bits)
    /\ (call.op = "from" /\ call.ret # Panic)
          => call.ret = Value("Parent", call.arg.bits)

C10_Witness ==
    /\ edited /\ debug_assertions
    /\ call.op = "safe_transmute" /\ call.dst = "Parent"
    /\ call.arg \in AliasValues
    /\ Mismatch(call.arg)
    /\ call.ret = as_parent(call.arg)

====
